---- MODULE Spec2Model ----
(* Model of app.py: a FastAPI service with one blocking pipeline handler     *)
(* (POST /generate-post) and two constant handlers (GET /, GET /heartbeat).  *)
(* Text is a sequence of tokens: a token is one character of variable text   *)
(* or one fixed fragment of a string literal of the source.                  *)
EXTENDS Naturals, Sequences, FiniteSets

\* ---------------------------------------------------------------- bounds
MaxArticles == 6          \* longest news list given to get_recent_news alone (SpecNews)
MaxPipelineArticles == 2  \* longest news list in the whole pipeline (Spec)
MaxContentLen == 2        \* longest text of a completion candidate
MaxPending == 1           \* GET requests waiting for the event loop

\* ------------------------------------------------------- program constants
DigestLimit == 5
StatusOK == 200
StatusValidation == 422
StatusBadGateway == 502
StatusServerError == 500

LF == "LF"
SP == " "
Sentinel == <<"NO_NEWS_FOUND">>

VARIABLES
  pc,                \* where the blocking handler of POST /generate-post stands
  body,              \* the body of the POST being (or last) handled
  recent_news, title, meta_description, post_content,   \* locals of generate_content
  calls,             \* outbound calls of the POST being (or last) handled
  upstream,          \* the upstream outcome most recently received
  response,          \* the HTTP response to the POST being (or last) handled
  inbox,             \* GET requests accepted and not yet handled by the event loop
  get_response       \* the HTTP response to the GET last handled

pipeline == <<pc, body, recent_news, title, meta_description, post_content, calls,
              upstream, response>>
vars == <<pc, body, recent_news, title, meta_description, post_content, calls,
          upstream, response, inbox, get_response>>

\* --------------------------------------------------------------- text
RECURSIVE SeqsUpTo(_, _)
SeqsUpTo(S, n) ==
  IF n = 0 THEN {<<>>}
  ELSE LET shorter == SeqsUpTo(S, n - 1)
       IN shorter \cup {Append(s, c) : s \in {t \in shorter : Len(t) = n - 1}, c \in S}

IsSpace(c) == c \in {SP, LF}

RECURSIVE LStrip(_)
LStrip(s) == IF s # <<>> /\ IsSpace(Head(s)) THEN LStrip(Tail(s)) ELSE s

RECURSIVE RStrip(_)
RStrip(s) ==
  IF s # <<>> /\ IsSpace(s[Len(s)]) THEN RStrip(SubSeq(s, 1, Len(s) - 1)) ELSE s

NoStrip(s) == s

\* str.strip()
Strip(s) == RStrip(LStrip(s))

\* "sep".join(parts)
RECURSIVE Join(_, _)
Join(parts, sep) ==
  IF parts = <<>> THEN <<>>
  ELSE IF Len(parts) = 1 THEN parts[1]
  ELSE parts[1] \o sep \o Join(Tail(parts), sep)

\* seq[:n]
Slice(s, n) == SubSeq(s, 1, IF Len(s) < n THEN Len(s) ELSE n)

Contains(s, t) ==
  \E i \in 0..(Len(s) - Len(t)) : SubSeq(s, i + 1, i + Len(t)) = t

\* --------------------------------------------------------------- inputs
TitleChars == {"a", "b"}
ContentChars == {SP, "x"}
Topics == {<<>>, <<"t">>}

\* request bodies of POST /generate-post: the topic field present or not
Bodies == {[has_topic |-> FALSE, topic |-> <<>>]}
          \cup {[has_topic |-> TRUE, topic |-> t] : t \in Topics}

\* an article object of the news list: with a one-character title or without the key
Articles == {[has_title |-> TRUE, title |-> <<c>>] : c \in TitleChars}
            \cup {[has_title |-> FALSE, title |-> <<>>]}

\* outcomes of requests.get / raise_for_status / response.json
\*   transport : RequestException from get() or raise_for_status()
\*   notjson   : status 2xx, body is not JSON; json() raises `exc`, which is a
\*               RequestException subclass or a plain ValueError depending on the
\*               installed requests release
\*   notobject : status 2xx, JSON that is not an object (no .get)
\*   object    : status 2xx, JSON object, with or without the "news" key
NewsResponsesUpTo(n) ==
  {[kind |-> "transport", exc |-> "RequestException", has_news |-> FALSE, news |-> <<>>]}
  \cup {[kind |-> "notjson", exc |-> e, has_news |-> FALSE, news |-> <<>>]
          : e \in {"RequestException", "ValueError"}}
  \cup {[kind |-> "notobject", exc |-> "AttributeError", has_news |-> FALSE, news |-> <<>>]}
  \cup {[kind |-> "object", exc |-> "", has_news |-> FALSE, news |-> <<>>]}
  \cup {[kind |-> "object", exc |-> "", has_news |-> TRUE, news |-> l]
          : l \in SeqsUpTo(Articles, n)}

NewsResponses == NewsResponsesUpTo(MaxPipelineArticles)

\* a candidate of the completion: message.content is a string or None
Choices == {[is_null |-> TRUE, content |-> <<>>]}
           \cup {[is_null |-> FALSE, content |-> c] : c \in SeqsUpTo(ContentChars, MaxContentLen)}

\* outcomes of openai.ChatCompletion.create: raises, or returns a candidate list
GenResponses ==
  {[kind |-> "error", choices |-> <<>>]}
  \cup {[kind |-> "ok", choices |-> <<>>]}
  \cup {[kind |-> "ok", choices |-> <<c>>] : c \in Choices}

\* ------------------------------------------------------------ get_recent_news
\* variant: the news call inside the try block of generate_content
NewsErrorStatusRemapped(exc) == StatusServerError

\* except requests.RequestException -> 502; except Exception -> 500
NewsErrorStatus(exc) ==
  IF exc = "RequestException" THEN StatusBadGateway ELSE StatusServerError

NewsErrorMessage(exc) ==
  IF exc = "RequestException" THEN "CURRENTS_REQUEST_ERROR" ELSE "NEWS_PROCESSING_ERROR"

\* response.json().get("news", [])
NewsData(resp) == IF resp.has_news THEN resp.news ELSE <<>>

\* variant: the slice taken one article too long
NewsDigestOffByOne(news_data) ==
  LET first == Slice(news_data, DigestLimit + 1)
  IN Join([i \in 1..Len(first) |-> first[i].title], <<LF>>)

\* "\n".join([article["title"] for article in news_data[:5]])
NewsDigest(news_data) ==
  LET first == Slice(news_data, DigestLimit)
  IN Join([i \in 1..Len(first) |-> first[i].title], <<LF>>)

\* the exception the try block raises for this upstream outcome, "" when none
NewsException(resp) ==
  IF resp.kind # "object" THEN resp.exc
  ELSE LET first == Slice(NewsData(resp), DigestLimit)
       IN IF \E i \in 1..Len(first) : ~first[i].has_title THEN "KeyError" ELSE ""

\* the result of get_recent_news, given the outcome of the outbound GET
get_recent_news(resp) ==
  LET exc == NewsException(resp)
  IN IF exc # ""
     THEN [ok |-> FALSE, value |-> <<>>, status |-> NewsErrorStatus(exc),
           detail |-> <<NewsErrorMessage(exc), exc>>]
     ELSE [ok |-> TRUE,
           value |-> IF NewsData(resp) = <<>> THEN Sentinel ELSE NewsDigest(NewsData(resp)),
           status |-> 0, detail |-> <<>>]

\* ----------------------------------------------------------- generate_content
TitlePrompt(tp, news) == <<"TITLE_HEAD", "'">> \o tp \o <<"'", "TITLE_WITH_NEWS", LF>> \o news \o <<".">>

MetaPrompt(t) == <<"META_HEAD", "'">> \o t \o <<"'", ".", "META_TAIL">>

\* variant: the article prompt built without the news
PostPromptNoNews(tp, news) == <<"POST_HEAD", "'">> \o tp \o <<"'", "POST_WITH_NEWS", LF, ".", "POST_REQUIREMENTS">>

PostPrompt(tp, news) == <<"POST_HEAD", "'">> \o tp \o <<"'", "POST_WITH_NEWS", LF>> \o news \o <<".", "POST_REQUIREMENTS">>

\* variant: the article generated before the meta-description
StageAfterSwapped(op) ==
  CASE op = "news" -> "title"
    [] op = "title" -> "post"
    [] op = "post" -> "meta"
    [] op = "meta" -> "done"

\* the order of the three completions in the try block
StageAfter(op) ==
  CASE op = "news" -> "title"
    [] op = "title" -> "meta"
    [] op = "meta" -> "post"
    [] op = "post" -> "done"

PromptFor(op, tp, news, t) ==
  CASE op = "title" -> TitlePrompt(tp, news)
    [] op = "meta" -> MetaPrompt(t)
    [] op = "post" -> PostPrompt(tp, news)

\* the exception of `x_response.choices[0].message.content.strip()`, "" when none
GenException(resp) ==
  IF resp.kind = "error" THEN "OpenAIError"
  ELSE IF resp.choices = <<>> THEN "IndexError"
  ELSE IF resp.choices[1].is_null THEN "AttributeError"
  ELSE ""

\* variant: the candidate text used without .strip()
CandidateTextRaw(resp) == resp.choices[1].content

\* x_response.choices[0].message.content.strip()
CandidateText(resp) == Strip(resp.choices[1].content)

\* variant: generation failures reported as upstream failures
GenerationErrorStatusGateway == StatusBadGateway

\* except Exception -> 500
GenerationErrorStatus == StatusServerError

\* ------------------------------------------------------------------ handlers
root_result == [path |-> "/", status |-> StatusOK, body |-> [message |-> "SERVICE_RUNNING"]]

\* variant: a heartbeat that reports the health of the last upstream exchange
heartbeat_result_health ==
  IF response.status >= StatusServerError
  THEN [path |-> "/heartbeat", status |-> 503, body |-> [status |-> "DEGRADED"]]
  ELSE [path |-> "/heartbeat", status |-> StatusOK, body |-> [status |-> "OK"]]

heartbeat_result == [path |-> "/heartbeat", status |-> StatusOK, body |-> [status |-> "OK"]]

\* pydantic: `topic: str` is required; any string is accepted
TopicValid(b) == b.has_topic

Paths == {"/", "/heartbeat"}

NoResponse == [status |-> 0, body |-> [none |-> TRUE]]
NoUpstream == [op |-> "none", kind |-> "none"]
NoGet == [path |-> "", status |-> 0, body |-> [none |-> TRUE]]
NoBody == [has_topic |-> FALSE, topic |-> <<>>, none |-> TRUE]

Call(op, prompt) == [ev |-> "call", op |-> op, prompt |-> prompt]
Ret(op) == [ev |-> "ret", op |-> op, prompt |-> <<>>]

Init ==
  /\ pc = "idle"
  /\ body = NoBody
  /\ recent_news = <<>> /\ title = <<>> /\ meta_description = <<>> /\ post_content = <<>>
  /\ calls = <<>>
  /\ upstream = NoUpstream
  /\ response = NoResponse
  /\ inbox = <<>>
  /\ get_response = NoGet

\* a GET arrives; the event loop runs it when the current handler has returned
ReceiveGet ==
  \E p \in Paths :
    /\ Len(inbox) < MaxPending
    /\ inbox' = Append(inbox, p)
    /\ UNCHANGED <<pipeline, get_response>>

root ==
  /\ pc = "idle" /\ inbox # <<>> /\ Head(inbox) = "/"
  /\ get_response' = root_result
  /\ inbox' = Tail(inbox)
  /\ UNCHANGED pipeline

heartbeat_api ==
  /\ pc = "idle" /\ inbox # <<>> /\ Head(inbox) = "/heartbeat"
  /\ get_response' = heartbeat_result
  /\ inbox' = Tail(inbox)
  /\ UNCHANGED pipeline

\* POST /generate-post: body validation, then generate_content up to the news call
generate_post_api ==
  \E b \in Bodies :
    /\ pc = "idle"
    /\ body' = b
    /\ recent_news' = <<>> /\ title' = <<>> /\ meta_description' = <<>> /\ post_content' = <<>>
    /\ upstream' = NoUpstream
    /\ IF TopicValid(b)
       THEN /\ pc' = "news"
            /\ calls' = <<Call("news", b.topic)>>
            /\ response' = NoResponse
       ELSE /\ pc' = "idle"
            /\ calls' = <<>>
            /\ response' = [status |-> StatusValidation, body |-> [detail |-> <<"VALIDATION">>]]
    /\ UNCHANGED <<inbox, get_response>>

\* the news call returns or raises; get_recent_news finishes; the title call is issued
NewsReturnOn(resp) ==
    LET r == get_recent_news(resp)
        next == StageAfter("news")
    IN /\ pc = "news"
       /\ upstream' = [op |-> "news", kind |-> resp.kind, resp |-> resp]
       /\ IF r.ok
          THEN /\ recent_news' = r.value
               /\ pc' = next
               /\ calls' = calls \o <<Ret("news"), Call(next, PromptFor(next, body.topic, r.value, title))>>
               /\ UNCHANGED response
          ELSE /\ pc' = "idle"
               /\ calls' = Append(calls, Ret("news"))
               /\ response' = [status |-> r.status, body |-> [detail |-> r.detail]]
               /\ UNCHANGED recent_news
       /\ UNCHANGED <<body, title, meta_description, post_content, inbox, get_response>>

NewsReturn == \E resp \in NewsResponses : NewsReturnOn(resp)

\* completion `op` returns or raises; its text is stored; the next call is issued
\* or the result is returned
GenReturn(op, resp) ==
  LET exc == GenException(resp)
      text == CandidateText(resp)
      next == StageAfter(op)
      t == IF op = "title" THEN text ELSE title
      m == IF op = "meta" THEN text ELSE meta_description
      p == IF op = "post" THEN text ELSE post_content
  IN /\ pc = op
     /\ upstream' = [op |-> op, kind |-> resp.kind, resp |-> resp]
     /\ IF exc # ""
        THEN /\ pc' = "idle"
             /\ calls' = Append(calls, Ret(op))
             /\ response' = [status |-> GenerationErrorStatus,
                             body |-> [detail |-> <<"GENERATION_ERROR", exc>>]]
             /\ UNCHANGED <<title, meta_description, post_content>>
        ELSE /\ title' = t /\ meta_description' = m /\ post_content' = p
             /\ IF next = "done"
                THEN /\ pc' = "idle"
                     /\ calls' = Append(calls, Ret(op))
                     /\ response' = [status |-> StatusOK,
                                     body |-> [title |-> t, meta_description |-> m,
                                               post_content |-> p]]
                ELSE /\ pc' = next
                     /\ calls' = calls \o <<Ret(op), Call(next, PromptFor(next, body.topic, recent_news, t))>>
                     /\ UNCHANGED response
     /\ UNCHANGED <<body, recent_news, inbox, get_response>>

TitleReturn == \E resp \in GenResponses : GenReturn("title", resp)

MetaReturn == \E resp \in GenResponses : GenReturn("meta", resp)

PostReturn == \E resp \in GenResponses : GenReturn("post", resp)

Next ==
  \/ ReceiveGet
  \/ root
  \/ heartbeat_api
  \/ generate_post_api
  \/ NewsReturn
  \/ TitleReturn
  \/ MetaReturn
  \/ PostReturn

Spec == Init /\ [][Next]_vars

\* get_recent_news alone, on news lists of up to MaxArticles articles: the state
\* of a POST whose news call is outstanding, and the return of that call
InitNews ==
  /\ pc = "news"
  /\ body \in {b \in Bodies : TopicValid(b)}
  /\ recent_news = <<>> /\ title = <<>> /\ meta_description = <<>> /\ post_content = <<>>
  /\ calls = <<Call("news", body.topic)>>
  /\ upstream = NoUpstream
  /\ response = NoResponse
  /\ inbox = <<>>
  /\ get_response = NoGet

NewsReturnAny == \E resp \in NewsResponsesUpTo(MaxArticles) : NewsReturnOn(resp)

NextNews == NewsReturnAny

SpecNews == InitNews /\ [][NextNews]_vars

\* =================================================================== claims
GenOps == {"title", "meta", "post"}

FullOps == <<"news", "title", "meta", "post">>

\* the events of a request that ran its first k calls to their return
EventsThrough(k) ==
  [i \in 1..(2 * k) |-> <<IF i % 2 = 1 THEN "call" ELSE "ret", FullOps[(i + 1) \div 2]>>]

Events == [i \in 1..Len(calls) |-> <<calls[i].ev, calls[i].op>>]

GenCallsMade == {i \in 1..Len(calls) : calls[i].ev = "call" /\ calls[i].op \in GenOps}

StageIndex(op) == CHOOSE k \in 1..4 : FullOps[k] = op

Quoted(t) == <<"'">> \o t \o <<"'">>

\* C1: a POST /generate-post answered with 200 made exactly these outbound calls,
\* each issued after the previous one returned: the news lookup, then the title,
\* the meta-description and the article completion, none of them twice, and the
\* response exists only after the article completion returned.
C1_SuccessCallsExactlyOnceInOrder ==
  response.status = StatusOK => Events = EventsThrough(4)

C1_Witness == response.status = 200 /\ Len(calls) = 8

\* C2: when the news call fails with a transport error the request ends with 502
\* and no completion call was made.
C2_TransportErrorIs502 ==
  (upstream.op = "news" /\ upstream.kind = "transport")
    => /\ pc = "idle"
       /\ response.status = 502
       /\ GenCallsMade = {}
       /\ Events = EventsThrough(1)

C2_Witness == upstream.op = "news" /\ upstream.kind = "transport" /\ response.status = 502

\* C3: when the k-th completion raises or returns no candidate, the request ends
\* with 500, no later completion is called, and the response body holds only the
\* error detail.
C3_GenerationFailureAborts ==
  (upstream.op \in GenOps /\ (upstream.kind = "error" \/ upstream.resp.choices = <<>>))
    => /\ pc = "idle"
       /\ response.status = 500
       /\ DOMAIN response.body = {"detail"}
       /\ Events = EventsThrough(StageIndex(upstream.op))

C3_Witness ==
  /\ upstream.op = "meta" /\ upstream.kind = "ok" /\ upstream.resp.choices = <<>>
  /\ response.status = 500 /\ title # <<>>

RECURSIVE TitleOffset(_, _)
TitleOffset(news, i) ==
  IF i = 1 THEN 0 ELSE TitleOffset(news, i - 1) + Len(news[i - 1].title) + 1

\* C5: for a news list of n >= 1 articles, the digest of a lookup that succeeds is
\* the titles of the first min(n, 5) articles in the order received with one
\* newline between neighbours and nothing else; articles after the fifth do not
\* take part.
C5_DigestIsFirstFiveTitles ==
  (upstream.op = "news" /\ upstream.kind = "object" /\ upstream.resp.news # <<>>
     /\ pc = "title")
    => LET news == upstream.resp.news
           k == IF Len(news) < 5 THEN Len(news) ELSE 5
       IN /\ Len(recent_news) = TitleOffset(news, k) + Len(news[k].title)
          /\ \A i \in 1..k :
               LET off == TitleOffset(news, i)
               IN /\ SubSeq(recent_news, off + 1, off + Len(news[i].title)) = news[i].title
                  /\ i > 1 => recent_news[off] = LF

C5_Witness ==
  /\ upstream.op = "news" /\ pc = "title"
  /\ Len(upstream.resp.news) = 6
  /\ upstream.resp.news[1].title # upstream.resp.news[2].title
  /\ Len(recent_news) = 9

\* t is s without its leading and trailing whitespace
IsTrimOf(t, s) ==
  /\ t = <<>> \/ (~IsSpace(t[1]) /\ ~IsSpace(t[Len(t)]))
  /\ \E i \in 0..Len(s) :
       /\ i + Len(t) <= Len(s)
       /\ SubSeq(s, i + 1, i + Len(t)) = t
       /\ \A j \in (1..i) \cup ((i + Len(t) + 1)..Len(s)) : IsSpace(s[j])

\* C6: the meta-description call is issued after the title call returned, and its
\* prompt holds, between quotes, the trimmed text that call returned; the article
\* prompt is made of the topic and the digest only.
C6_MetaPromptCarriesTitle ==
  /\ pc = "meta" => (upstream.op = "title" /\ IsTrimOf(title, upstream.resp.choices[1].content))
  /\ \A i \in GenCallsMade :
       /\ calls[i].op = "meta"
            => /\ Contains(calls[i].prompt, Quoted(title))
               /\ \E j \in 1..(i - 1) : calls[j].ev = "ret" /\ calls[j].op = "title"
       /\ calls[i].op = "post"
            => calls[i].prompt =
                 <<"POST_HEAD", "'">> \o body.topic \o <<"'", "POST_WITH_NEWS", LF>>
                   \o recent_news \o <<".", "POST_REQUIREMENTS">>

C6_Witness ==
  /\ pc = "meta"
  /\ upstream.resp.choices[1].content = <<" ", "x">>
  /\ calls[Len(calls)].prompt = <<"META_HEAD", "'", "x", "'", ".", "META_TAIL">>

\* C7 as stated: a POST whose topic is missing or empty is rejected with 422 or 400
\* and makes no outbound call.
C7_Original ==
  ("none" \notin DOMAIN body /\ (~body.has_topic \/ body.topic = <<>>))
    => (response.status \in {400, 422} /\ calls = <<>>)

\* C8 as stated: a 200 response to a non-empty topic carries three non-empty texts.
C8_Original ==
  (response.status = 200 /\ body.topic # <<>>)
    => /\ response.body.title # <<>>
       /\ response.body.meta_description # <<>>
       /\ response.body.post_content # <<>>

\* C9 as stated: when the news API answers with a success status and the answer
\* cannot be processed (not JSON, not an object, an article of the first five
\* without a title), the request ends with 500, not 502, and no completion call.
C9_Original ==
  (upstream.op = "news"
     /\ \/ upstream.kind \in {"notjson", "notobject"}
        \/ /\ upstream.kind = "object"
           /\ \E i \in 1..Len(upstream.resp.news) :
                i <= 5 /\ ~upstream.resp.news[i].has_title)
    => (pc = "idle" /\ response.status = 500 /\ GenCallsMade = {})

====
